---- MODULE Spec2Model ----
\* Block pool for RDMA-registered memory (src/brpc/rdma/block_pool.cpp).
\*
\* Addresses and sizes are plain integers.  One unit of the model is one byte;
\* BYTES_IN_MB and IOBUF_DEFAULT_BLOCK_SIZE are scaled down so that a region
\* holds a handful of blocks and exhaustion is reachable.  Everything else
\* (the 64 MB minimum, MAX_REGIONS, the 4096 alignment, the class table
\* B, 2B, 4B, 8B and the regularisation arithmetic) is as in the source.
EXTENDS Integers, Sequences, FiniteSets, Bags, TLC

----------------------------------------------------------------------------
\* Program constants

BYTES_IN_MB == 1                \* scaled (source: 1048576)
IOBUF_DEFAULT_BLOCK_SIZE == 2   \* scaled (butil::IOBuf::DEFAULT_BLOCK_SIZE)
MAX_REGIONS == 16
BLOCK_SIZE_COUNT == 4
MIN_SIZE_MB == 64
ALIGNMENT == 4096
NULL == 0
EINVAL == 22
ENOMEM == 12
ERANGE == 34
NoRegion == -1                  \* GetRegion's NULL result (no Region*)
LOCK_NULL == -1                 \* a Mutex* that is NULL (new failed)
LOCK_FREED == -2                \* a Mutex* that was deleted

\* Bounds of the checked instance
NThreads == 2        \* concurrent caller threads
MaxBlocks == 2       \* blocks in circulation: carved off a run and not merged back
MaxLeaks == 1        \* DeallocBlock calls that find the object pool empty
MaxBuckets == 2      \* largest value given to the buckets flag
MaxRegionsFlag == 2  \* largest value given to the max_regions flag
ExtraMB == 2         \* the increase flag is MIN_SIZE_MB + ExtraMB
MaxInits == 1        \* InitBlockPool calls that get past the double-initialization check
NSlots == 2          \* page-aligned places posix_memalign can return

Threads == 1..NThreads
Classes == 0..(BLOCK_SIZE_COUNT - 1)
\* flag values: below the clamp and the largest
BucketFlagValues == {0, MaxBuckets}
RegionsFlagValues == {0, MaxRegionsFlag}
InitialSizeValues == {MIN_SIZE_MB - 1}
IncreaseSizeValues == {MIN_SIZE_MB + ExtraMB}
BaseAddrs == {ALIGNMENT * s : s \in 1..NSlots}
\* request sizes: 0, B, B + 1, 8B, 8B + 1
SizeArgs == {0, IOBUF_DEFAULT_BLOCK_SIZE, IOBUF_DEFAULT_BLOCK_SIZE + 1,
             8 * IOBUF_DEFAULT_BLOCK_SIZE, 8 * IOBUF_DEFAULT_BLOCK_SIZE + 1}

VARIABLES
    FLAGS,          \* the four gflags (lines 33-38)
    g_buckets, g_max_regions, g_regions, g_region_num, g_cb, g_block_size,
    g_info,         \* NULL or 1 (a GlobalInfo exists)
    idle_list,      \* idle_list[c]: vector (sequence, bucket b at b+1) of node lists
    ready_list,     \* ready_list[c]: node list, head first
    lock,           \* lock[c]: vector of mutexes: 0 free, t held by t, LOCK_NULL, LOCK_FREED
    extend_lock,    \* 0 free, t held by thread t
    pc, local,      \* per thread: position in the call, the call's locals
    last,           \* the call that returned in the step just taken: what it
                    \* returned and the value it wrote to errno (0: it wrote
                    \* none); NoCall after a step in which no call returned
    heap,           \* live posix_memalign results that were registered: [base, size, id]
    cb_calls,       \* bag of the g_cb invocations made for memory that is still allocated:
                    \* [base, len, ret]
    loaned,         \* pointers returned by AllocBlock and not yet given to DeallocBlock
    leaked,         \* pointers DeallocBlock accepted without getting an IdleNode
    nodesOut,       \* IdleNodes obtained from the object pool and not returned
    poolReady,      \* the last InitBlockPool returned non-NULL and no Destroy since
    inits,          \* InitBlockPool calls that got past the double-initialization check
    crashed,        \* the process dereferenced a NULL mutex or failed a CHECK
    cm,             \* one RdmaCommunicationManager: the rdma_cm_id's event, the events
                    \* waiting on its channel, the library calls made, the last result
    trip            \* a caller's round trip p = AllocBlock(size); DeallocBlock(p);
                    \* q = AllocBlock(size): how far it is, and size, p, q

poolVars == <<FLAGS, g_buckets, g_max_regions, g_regions, g_region_num, g_cb,
              g_block_size, g_info, idle_list, ready_list, lock, extend_lock>>
threadVars == <<pc, local, last>>
ghostVars == <<heap, cb_calls, loaned, leaked, nodesOut, poolReady, inits, crashed, trip, cm>>
vars == <<poolVars, threadVars, ghostVars>>

----------------------------------------------------------------------------
\* Data

Region0 == [start |-> 0, size |-> 0, block_type |-> 0, id |-> 0]
NoLocal == [size |-> 0, block_type |-> 0, index |-> 0, buf |-> NULL]
NoCall == [op |-> "none", ret |-> 0, err |-> 0]
NoTrip == [stage |-> 0, size |-> 0, p |-> NULL, q |-> NULL]
NoCM == [event |-> NULL, channel |-> <<>>, arrived |-> 0, log |-> <<>>, ret |-> "none"]
Node(s, l) == [start |-> s, len |-> l]

\* n copies of x as a sequence
Fill(n, x) == [i \in 1..n |-> x]

\* the variant that cuts the list at the detached node
RemoveAt_Truncate(list, k) == SubSeq(list, 1, k - 1)

\* the list without its k-th node (lines 233-237)
RemoveAt(list, k) == SubSeq(list, 1, k - 1) \o SubSeq(list, k + 1, Len(list))

\* The part of the state the pool's helpers read and write, as one value.
Pool ==
    [max_regions |-> g_max_regions, buckets |-> g_buckets,
     block_size |-> g_block_size, regions |-> g_regions,
     region_num |-> g_region_num, idle |-> idle_list, ready |-> ready_list,
     nodesOut |-> nodesOut, heap |-> heap, cb_calls |-> cb_calls, crash |-> crashed]

SetPool(P) ==
    /\ g_regions' = P.regions
    /\ g_region_num' = P.region_num
    /\ idle_list' = P.idle
    /\ ready_list' = P.ready
    /\ nodesOut' = P.nodesOut
    /\ heap' = P.heap
    /\ cb_calls' = P.cb_calls
    /\ crashed' = P.crash

----------------------------------------------------------------------------
\* Region table and reverse lookup

\* the variant whose range check includes the end address
RECURSIVE GetRegionFrom_Incl(_, _, _, _)
GetRegionFrom_Incl(regions, max_regions, addr, i) ==
    IF i >= max_regions THEN NoRegion
    ELSE IF regions[i].start = 0 THEN NoRegion
    ELSE IF addr >= regions[i].start /\ addr <= regions[i].start + regions[i].size
         THEN i
    ELSE GetRegionFrom_Incl(regions, max_regions, addr, i + 1)

\* the loop of lines 92-101
RECURSIVE GetRegionFrom(_, _, _, _)
GetRegionFrom(regions, max_regions, addr, i) ==
    IF i >= max_regions THEN NoRegion
    ELSE IF regions[i].start = 0 THEN NoRegion
    ELSE IF addr >= regions[i].start /\ addr < regions[i].start + regions[i].size
         THEN i
    ELSE GetRegionFrom(regions, max_regions, addr, i + 1)

\* index of the Region* the lookup returns, NoRegion for NULL
GetRegion(regions, max_regions, buf) ==
    IF buf = NULL THEN NoRegion ELSE GetRegionFrom(regions, max_regions, buf, 0)

\* the variant that returns the key of the first region
GetRegionId_First(buf) ==
    LET r == GetRegion(g_regions, g_max_regions, buf)
    IN IF r = NoRegion THEN 0 ELSE g_regions[0].id

GetRegionId(buf) ==
    LET r == GetRegion(g_regions, g_max_regions, buf)
    IN IF r = NoRegion THEN 0 ELSE g_regions[r].id

GetBlockType(buf) ==
    LET r == GetRegion(g_regions, g_max_regions, buf)
    IN IF r = NoRegion THEN -1 ELSE g_regions[r].block_type

RECURSIVE ListLen(_)
ListLen(list) == IF list = <<>> THEN 0 ELSE Head(list).len + ListLen(Tail(list))

RECURSIVE SumLens(_, _)
SumLens(vec, i) == IF i > Len(vec) THEN 0 ELSE ListLen(vec[i]) + SumLens(vec, i + 1)

GetGlobalLen(block_type) == SumLens(idle_list[block_type], 1)

GetRegionNum == g_region_num

----------------------------------------------------------------------------
\* Region extender

\* "Regularize region size" (lines 125-127)
RegularSize(region_size, block_size, buckets) ==
    ((((region_size * BYTES_IN_MB) \div block_size) \div buckets) * block_size) * buckets

\* the K nodes of a new region as they end up on the ready list: node[K-1] first
RECURSIVE ReadyNodes(_, _, _)
ReadyNodes(start, per_bucket, i) ==
    IF i < 0 THEN <<>>
    ELSE <<Node(start + i * per_bucket, per_bucket)>> \o ReadyNodes(start, per_bucket, i - 1)

\* the variant that installs over the last installed entry
ExtendBlockPool_Overwrite(region_size, block_type, env, P) ==
    IF region_size < MIN_SIZE_MB THEN [ret |-> NULL, err |-> EINVAL, pool |-> P]
    ELSE IF P.region_num = P.max_regions THEN [ret |-> NULL, err |-> ENOMEM, pool |-> P]
    ELSE LET size == RegularSize(region_size, P.block_size[block_type], P.buckets)
             slot == IF P.region_num = 0 THEN 0 ELSE P.region_num - 1
         IN IF env.base = NULL THEN [ret |-> NULL, err |-> 0, pool |-> P]
            ELSE IF env.id = 0 THEN [ret |-> NULL, err |-> 0, pool |-> P]
            ELSE IF env.nn < P.buckets THEN [ret |-> NULL, err |-> 0, pool |-> P]
            ELSE [ret |-> env.base, err |-> 0,
                  pool |-> [P EXCEPT
                     !.regions[slot] =
                         [start |-> env.base, size |-> size,
                          block_type |-> block_type, id |-> env.id],
                     !.region_num = P.region_num + 1,
                     !.ready[block_type] =
                         ReadyNodes(env.base, size \div P.buckets, P.buckets - 1)
                             \o P.ready[block_type],
                     !.nodesOut = P.nodesOut + P.buckets,
                     !.heap = P.heap \cup {[base |-> env.base, size |-> size, id |-> env.id]},
                     !.cb_calls = P.cb_calls (+)
                         SetToBag({[base |-> env.base, len |-> size, ret |-> env.id]})]]

\* the variant without the check of the region cap
ExtendBlockPool_NoCap(region_size, block_type, env, P) ==
    IF region_size < MIN_SIZE_MB THEN [ret |-> NULL, err |-> EINVAL, pool |-> P]
    ELSE LET size == RegularSize(region_size, P.block_size[block_type], P.buckets)
         IN IF env.base = NULL THEN [ret |-> NULL, err |-> 0, pool |-> P]
            ELSE IF env.id = 0 THEN [ret |-> NULL, err |-> 0, pool |-> P]
            ELSE IF env.nn < P.buckets THEN [ret |-> NULL, err |-> 0, pool |-> P]
            ELSE [ret |-> env.base, err |-> 0,
                  pool |-> [P EXCEPT
                     !.regions[P.region_num] =
                         [start |-> env.base, size |-> size,
                          block_type |-> block_type, id |-> env.id],
                     !.region_num = P.region_num + 1,
                     !.ready[block_type] =
                         ReadyNodes(env.base, size \div P.buckets, P.buckets - 1)
                             \o P.ready[block_type],
                     !.nodesOut = P.nodesOut + P.buckets,
                     !.heap = P.heap \cup {[base |-> env.base, size |-> size, id |-> env.id]},
                     !.cb_calls = P.cb_calls (+)
                         SetToBag({[base |-> env.base, len |-> size, ret |-> env.id]})]]

\* the variant that keeps the memory and the nodes it got when a node is missing
ExtendBlockPool_NoFree(region_size, block_type, env, P) ==
    IF region_size < MIN_SIZE_MB THEN [ret |-> NULL, err |-> EINVAL, pool |-> P]
    ELSE IF P.region_num = P.max_regions THEN [ret |-> NULL, err |-> ENOMEM, pool |-> P]
    ELSE LET size == RegularSize(region_size, P.block_size[block_type], P.buckets)
         IN IF env.base = NULL THEN [ret |-> NULL, err |-> 0, pool |-> P]
            ELSE IF env.id = 0 THEN [ret |-> NULL, err |-> 0, pool |-> P]
            ELSE IF env.nn < P.buckets
                 THEN [ret |-> NULL, err |-> 0,
                       pool |-> [P EXCEPT
                          !.nodesOut = P.nodesOut + env.nn,
                          !.heap = P.heap \cup
                              {[base |-> env.base, size |-> size, id |-> env.id]}]]
            ELSE [ret |-> env.base, err |-> 0,
                  pool |-> [P EXCEPT
                     !.regions[P.region_num] =
                         [start |-> env.base, size |-> size,
                          block_type |-> block_type, id |-> env.id],
                     !.region_num = P.region_num + 1,
                     !.ready[block_type] =
                         ReadyNodes(env.base, size \div P.buckets, P.buckets - 1)
                             \o P.ready[block_type],
                     !.nodesOut = P.nodesOut + P.buckets,
                     !.heap = P.heap \cup {[base |-> env.base, size |-> size, id |-> env.id]},
                     !.cb_calls = P.cb_calls (+)
                         SetToBag({[base |-> env.base, len |-> size, ret |-> env.id]})]]

\* env.base: what posix_memalign returns (NULL: it failed); env.id: what the
\* callback returns; env.nn: how many get_object calls succeed before one fails.
\* Result: the return value, the errno written (0: not written), the new pool.
ExtendBlockPool(region_size, block_type, env, P) ==
    IF region_size < MIN_SIZE_MB THEN [ret |-> NULL, err |-> EINVAL, pool |-> P]
    ELSE IF P.region_num = P.max_regions THEN [ret |-> NULL, err |-> ENOMEM, pool |-> P]
    ELSE LET size == RegularSize(region_size, P.block_size[block_type], P.buckets)
         IN IF env.base = NULL THEN [ret |-> NULL, err |-> 0, pool |-> P]
            ELSE IF env.id = 0 THEN [ret |-> NULL, err |-> 0, pool |-> P]
            ELSE IF env.nn < P.buckets THEN [ret |-> NULL, err |-> 0, pool |-> P]
            ELSE [ret |-> env.base, err |-> 0,
                  pool |-> [P EXCEPT
                     !.regions[P.region_num] =
                         [start |-> env.base, size |-> size,
                          block_type |-> block_type, id |-> env.id],
                     !.region_num = P.region_num + 1,
                     !.ready[block_type] =
                         ReadyNodes(env.base, size \div P.buckets, P.buckets - 1)
                             \o P.ready[block_type],
                     !.nodesOut = P.nodesOut + P.buckets,
                     !.heap = P.heap \cup {[base |-> env.base, size |-> size, id |-> env.id]},
                     !.cb_calls = P.cb_calls (+)
                         SetToBag({[base |-> env.base, len |-> size, ret |-> env.id]})]]

----------------------------------------------------------------------------
\* Ready-list draining

\* bucket of an address inside region r (lines 231, 325)
BucketOf(addr, r, buckets) == ((addr - r.start) * buckets) \div r.size

\* position of the node the loop detaches; 0: end of list reached;
\* -1: CHECK(r != NULL) failed
RECURSIVE PickScan(_, _, _, _)
PickScan(P, list, index, k) ==
    IF k > Len(list) THEN 0
    ELSE LET r == GetRegion(P.regions, P.max_regions, list[k].start)
         IN IF r = NoRegion THEN -1
            ELSE IF BucketOf(list[k].start, P.regions[r], P.buckets) = index THEN k
            ELSE PickScan(P, list, index, k + 1)

PickReadyBlocks(block_type, index, P) ==
    LET list == P.ready[block_type]
        k == PickScan(P, list, index, 1)
    IN IF k = -1 THEN [P EXCEPT !.crash = TRUE]
       ELSE IF k = 0 THEN P
       ELSE [P EXCEPT !.idle[block_type][index + 1] = <<list[k]>>,
                      !.ready[block_type] = RemoveAt(list, k)]

----------------------------------------------------------------------------
\* Initial state: static storage as the loader leaves it (lines 56-63, 74, 83)

FlagSets ==
    [initial_size_mb : InitialSizeValues, increase_size_mb : IncreaseSizeValues,
     max_regions : RegionsFlagValues, buckets : BucketFlagValues]

Init ==
    /\ FLAGS = [initial_size_mb |-> MIN_SIZE_MB, increase_size_mb |-> MIN_SIZE_MB,
                max_regions |-> 1, buckets |-> 1]
    /\ g_buckets = 1
    /\ g_max_regions = MAX_REGIONS
    /\ g_regions = [i \in 0..(MAX_REGIONS - 1) |-> Region0]
    /\ g_region_num = 0
    /\ g_cb = NULL
    /\ g_block_size = [c \in Classes |-> 0]
    /\ g_info = NULL
    /\ idle_list = [c \in Classes |-> <<>>]
    /\ ready_list = [c \in Classes |-> <<>>]
    /\ lock = [c \in Classes |-> <<>>]
    /\ extend_lock = 0
    /\ pc = [t \in Threads |-> "idle"]
    /\ local = [t \in Threads |-> NoLocal]
    /\ last = NoCall
    /\ heap = {}
    /\ cb_calls = EmptyBag
    /\ loaned = {}
    /\ leaked = {}
    /\ nodesOut = 0
    /\ poolReady = FALSE
    /\ inits = 0
    /\ crashed = FALSE
    /\ trip = NoTrip
    /\ cm = NoCM

Quiet == \A u \in Threads : pc[u] = "idle"

\* The embedding program assigns the gflags before it initializes the pool.
SetFlags(fl) ==
    /\ ~crashed /\ Quiet /\ g_cb = NULL
    /\ FLAGS' = fl
    /\ last' = NoCall
    /\ UNCHANGED <<g_buckets, g_max_regions, g_regions, g_region_num, g_cb,
                   g_block_size, g_info, idle_list, ready_list, lock, extend_lock, trip, cm>>
    /\ UNCHANGED <<pc, local, ghostVars>>

Returned(op, ret, err) == last' = [op |-> op, ret |-> ret, err |-> err]

----------------------------------------------------------------------------
\* InitBlockPool (lines 170-223)

\* the flags as lines 181-192 leave them
ClampFlags(fl) ==
    [fl EXCEPT
        !.max_regions = IF fl.max_regions < 1 THEN 1 ELSE fl.max_regions,
        !.initial_size_mb = IF fl.initial_size_mb < MIN_SIZE_MB THEN MIN_SIZE_MB
                            ELSE fl.initial_size_mb,
        !.increase_size_mb = IF fl.increase_size_mb < MIN_SIZE_MB THEN MIN_SIZE_MB
                             ELSE fl.increase_size_mb]

\* lines 184-186
ClampMaxRegions(fl, max_regions) ==
    IF fl.max_regions < max_regions THEN fl.max_regions ELSE max_regions

\* lines 193-195
ClampBuckets(fl, buckets) == IF fl.buckets >= 1 THEN fl.buckets ELSE buckets

\* lines 216-220
BlockSizes == [c \in Classes |-> IOBUF_DEFAULT_BLOCK_SIZE * (2 ^ c)]

NoMutexFail == <<-1, -1>>
\* the `new Mutex` that fails, if one does: the first, or a later one
MutexFailures == {NoMutexFail, <<0, 0>>, <<1, 1>>}

\* The lock vectors the loop of lines 200-215 has built when the one failing
\* `new Mutex` is the one for (mf[1], mf[2]); with mf[2] >= 1 the loop deletes
\* lock[0][0] and returns, with mf[2] = 0 it goes on with a NULL mutex.
InitLocks(K, mf) ==
    LET early == mf # NoMutexFail /\ mf[2] >= 1
        built == [c \in Classes |->
                    IF early /\ c > mf[1] THEN <<>>
                    ELSE [b \in 1..K |->
                            IF c = mf[1] /\ b - 1 = mf[2] THEN LOCK_NULL
                            ELSE IF early /\ c = mf[1] /\ b - 1 > mf[2] THEN LOCK_NULL
                            ELSE 0]]
    IN IF early THEN [built EXCEPT ![0][1] = LOCK_FREED] ELSE built

InitIdle(K, mf) ==
    [c \in Classes |->
        IF mf # NoMutexFail /\ mf[2] >= 1 /\ c > mf[1] THEN <<>> ELSE Fill(K, <<>>)]

\* the variant without the check for a repeated initialization
InitRejected_NoRepeat(cb, installed) == cb = NULL

\* the two early returns of lines 171-179
InitRejected(cb, installed) == cb = NULL \/ installed # NULL

InitBlockPool(cb, newInfo, mf, env) ==
    /\ ~crashed /\ Quiet
    /\ IF InitRejected(cb, g_cb)
       THEN /\ Returned("init", NULL, EINVAL)
            /\ UNCHANGED <<poolVars, pc, local, ghostVars>>
       ELSE LET fl == ClampFlags(FLAGS)
                maxr == ClampMaxRegions(fl, g_max_regions)
                K == ClampBuckets(fl, g_buckets)
            IN /\ mf = NoMutexFail \/ mf[2] < K
               /\ g_cb' = cb
               /\ FLAGS' = fl
               /\ g_max_regions' = maxr
               /\ g_buckets' = K
               /\ inits' = inits + 1
               /\ UNCHANGED <<extend_lock, pc, local, loaned, leaked, trip, cm>>
               /\ IF ~newInfo
                  THEN \* new (std::nothrow) GlobalInfo returned NULL
                       /\ Returned("init", NULL, 0)
                       /\ UNCHANGED <<g_regions, g_region_num, g_block_size, g_info,
                                      idle_list, ready_list, lock,
                                      heap, cb_calls, nodesOut, poolReady, crashed, trip, cm>>
                  ELSE IF mf # NoMutexFail /\ mf[2] >= 1
                  THEN \* the premature return of line 209
                       /\ g_info' = 1
                       /\ idle_list' = InitIdle(K, mf)
                       /\ lock' = InitLocks(K, mf)
                       /\ Returned("init", NULL, 0)
                       /\ UNCHANGED <<g_regions, g_region_num, g_block_size,
                                      ready_list, heap, cb_calls, nodesOut,
                                      poolReady, crashed, trip, cm>>
                  ELSE LET P == [Pool EXCEPT !.max_regions = maxr, !.buckets = K,
                                             !.block_size = BlockSizes,
                                             !.idle = InitIdle(K, mf),
                                             !.ready = [c \in Classes |-> <<>>]]
                           E == ExtendBlockPool(fl.initial_size_mb, 0, env, P)
                       IN /\ g_info' = 1
                          /\ lock' = InitLocks(K, mf)
                          /\ g_block_size' = BlockSizes
                          /\ SetPool(E.pool)
                          /\ Returned("init", E.ret, E.err)
                          /\ poolReady' = (E.ret # NULL)

----------------------------------------------------------------------------
\* AllocBlock / AllocBlockFrom (lines 246-299)

\* the variant that compares with < instead of <=
RECURSIVE ClassFrom_Strict(_, _, _)
ClassFrom_Strict(block_size, size, i) ==
    IF i >= BLOCK_SIZE_COUNT - 1 THEN i
    ELSE IF size < block_size[i] THEN i
    ELSE ClassFrom_Strict(block_size, size, i + 1)

\* the loop of lines 292-297: the first class whose block size fits
RECURSIVE ClassFrom(_, _, _)
ClassFrom(block_size, size, i) ==
    IF i >= BLOCK_SIZE_COUNT THEN -1
    ELSE IF size <= block_size[i] THEN i
    ELSE ClassFrom(block_size, size, i + 1)

ClassOf(block_size, size) == ClassFrom(block_size, size, 0)

\* the variant that lets size 0 through
InvalidSize_NoZero(block_size, size) == size > block_size[BLOCK_SIZE_COUNT - 1]

\* line 287
InvalidSize(block_size, size) == size = 0 \/ size > block_size[BLOCK_SIZE_COUNT - 1]

\* AllocBlock up to the read of the idle head under the bucket mutex
\* (lines 286-297, 248-251); index is what fast_rand() % g_buckets gives
AllocBlock(t, size, index) ==
    LET c == ClassOf(g_block_size, size)
        b == index + 1
    IN /\ ~crashed /\ poolReady /\ pc[t] = "idle"
       /\ IF InvalidSize(g_block_size, size)
          THEN /\ Returned("alloc", NULL, EINVAL)
               /\ UNCHANGED <<poolVars, pc, local, ghostVars>>
          ELSE /\ index < g_buckets
               /\ IF lock[c][b] = LOCK_NULL
                  THEN /\ crashed' = TRUE /\ last' = NoCall
                       /\ UNCHANGED <<poolVars, pc, local, heap, cb_calls, loaned, leaked,
                                      nodesOut, poolReady, inits, trip, cm>>
                  ELSE /\ lock[c][b] = 0
                       /\ lock' = [lock EXCEPT ![c][b] = t]
                       /\ local' = [local EXCEPT ![t] =
                                       [size |-> size, block_type |-> c,
                                        index |-> index, buf |-> NULL]]
                       /\ pc' = [pc EXCEPT ![t] =
                                    IF idle_list[c][b] # <<>> THEN "a_take" ELSE "a_extlock"]
                       /\ last' = NoCall
                       /\ UNCHANGED <<FLAGS, g_buckets, g_max_regions, g_regions,
                                      g_region_num, g_cb, g_block_size, g_info,
                                      idle_list, ready_list, extend_lock, ghostVars>>

\* the variant that gives up the bucket mutex before it takes extend_lock
AllocLockExtend_Unlocked(t) ==
    /\ ~crashed /\ pc[t] = "a_extlock"
    /\ extend_lock = 0
    /\ extend_lock' = t
    /\ lock' = [lock EXCEPT ![local[t].block_type][local[t].index + 1] = 0]
    /\ pc' = [pc EXCEPT ![t] = "a_extend"]
    /\ last' = NoCall
    /\ UNCHANGED <<FLAGS, g_buckets, g_max_regions, g_regions, g_region_num, g_cb,
                   g_block_size, g_info, idle_list, ready_list,
                   local, ghostVars>>

\* BAIDU_SCOPED_LOCK(g_info->extend_lock) (line 252)
AllocLockExtend(t) ==
    /\ ~crashed /\ pc[t] = "a_extlock"
    /\ extend_lock = 0
    /\ extend_lock' = t
    /\ pc' = [pc EXCEPT ![t] = "a_extend"]
    /\ last' = NoCall
    /\ UNCHANGED <<FLAGS, g_buckets, g_max_regions, g_regions, g_region_num, g_cb,
                   g_block_size, g_info, idle_list, ready_list, lock,
                   local, ghostVars>>

\* the variant that extends before it looks at the ready list
PickOrExtend_Eager(block_type, index, region_size, env, P) ==
    LET E == ExtendBlockPool(region_size, block_type, env, P)
    IN IF E.ret = NULL THEN E
       ELSE [ret |-> 1, err |-> 0,
             pool |-> PickReadyBlocks(block_type, index, E.pool)]

\* what lines 253-269 make of the pool: pick, and if the bucket is still empty
\* extend and pick again.  ret = NULL: the `return NULL` of line 265.
PickOrExtend(block_type, index, region_size, env, P) ==
    LET P1 == PickReadyBlocks(block_type, index, P)
    IN IF P1.crash \/ P1.idle[block_type][index + 1] # <<>>
       THEN [ret |-> 1, err |-> 0, pool |-> P1]
       ELSE LET E == ExtendBlockPool(region_size, block_type, env, P1)
            IN IF E.ret = NULL THEN E
               ELSE [ret |-> 1, err |-> 0,
                     pool |-> PickReadyBlocks(block_type, index, E.pool)]

\* the critical section under extend_lock (lines 253-270); both scoped locks
\* are released when it returns NULL
AllocExtend(t, env) ==
    LET c == local[t].block_type
        b == local[t].index + 1
        R == PickOrExtend(c, local[t].index, FLAGS.increase_size_mb, env, Pool)
    IN /\ ~crashed /\ pc[t] = "a_extend"
       /\ SetPool(R.pool)
       /\ IF R.pool.crash
          THEN last' = NoCall /\ UNCHANGED <<lock, extend_lock, pc, local, trip, cm>>
          ELSE IF R.ret = NULL
          THEN /\ lock' = [lock EXCEPT ![c][b] = 0]
               /\ extend_lock' = 0
               /\ Returned("alloc", NULL, R.err)
               /\ pc' = [pc EXCEPT ![t] = "idle"]
               /\ local' = [local EXCEPT ![t] = NoLocal]
          ELSE /\ extend_lock' = 0
               /\ pc' = [pc EXCEPT ![t] = "a_take"]
               /\ last' = NoCall
               /\ UNCHANGED <<lock, local, trip, cm>>
       /\ UNCHANGED <<FLAGS, g_buckets, g_max_regions, g_cb, g_block_size, g_info,
                      loaned, leaked, poolReady, inits, trip, cm>>

\* the variant that hands out a node of one block and keeps it on the list
TakeBlock_KeepSingle(list, bsize) ==
    LET node == Head(list)
    IN IF node.len > bsize
       THEN [ptr |-> node.start, popped |-> 0, crash |-> FALSE,
             list |-> <<Node(node.start + bsize, node.len - bsize)>> \o Tail(list)]
       ELSE [ptr |-> node.start, popped |-> 0, crash |-> node.len # bsize,
             list |-> list]

\* the variant that leaves the run where it is
TakeBlock_NoAdvance(list, bsize) ==
    LET node == Head(list)
    IN IF node.len > bsize
       THEN [ptr |-> node.start, popped |-> 0, crash |-> FALSE, list |-> list]
       ELSE [ptr |-> node.start, popped |-> 1, crash |-> node.len # bsize,
             list |-> Tail(list)]

\* the variant that advances the run by the default block size
TakeBlock_DefaultStep(list, bsize) ==
    LET node == Head(list)
    IN IF node.len > bsize
       THEN [ptr |-> node.start, popped |-> 0, crash |-> FALSE,
             list |-> <<Node(node.start + IOBUF_DEFAULT_BLOCK_SIZE,
                             node.len - IOBUF_DEFAULT_BLOCK_SIZE)>> \o Tail(list)]
       ELSE [ptr |-> node.start, popped |-> 1, crash |-> node.len # bsize,
             list |-> Tail(list)]

\* the idle list after the head block is taken (lines 273-281);
\* crash: CHECK(node->len == g_block_size[block_type]) failed
TakeBlock(list, bsize) ==
    LET node == Head(list)
    IN IF node.len > bsize
       THEN [ptr |-> node.start, popped |-> 0, crash |-> FALSE,
             list |-> <<Node(node.start + bsize, node.len - bsize)>> \o Tail(list)]
       ELSE [ptr |-> node.start, popped |-> 1, crash |-> node.len # bsize,
             list |-> Tail(list)]

\* lines 271-283 and the release of the bucket mutex
AllocTake(t) ==
    LET c == local[t].block_type
        b == local[t].index + 1
        T == TakeBlock(idle_list[c][b], g_block_size[c])
    IN /\ ~crashed /\ pc[t] = "a_take"
       /\ IF idle_list[c][b] # <<>> /\ T.crash
          THEN /\ crashed' = TRUE /\ last' = NoCall
               /\ UNCHANGED <<poolVars, pc, local, heap, cb_calls, loaned, leaked, nodesOut,
                              poolReady, inits, trip, cm>>
          ELSE /\ IF idle_list[c][b] = <<>>
                  THEN /\ Returned("alloc", NULL, 0)
                       /\ UNCHANGED <<idle_list, nodesOut, loaned, trip, cm>>
                  ELSE /\ idle_list' = [idle_list EXCEPT ![c][b] = T.list]
                       /\ nodesOut' = nodesOut - T.popped
                       /\ loaned' = loaned \cup {T.ptr}
                       /\ Returned("alloc", T.ptr, 0)
               /\ lock' = [lock EXCEPT ![c][b] = 0]
               /\ pc' = [pc EXCEPT ![t] = "idle"]
               /\ local' = [local EXCEPT ![t] = NoLocal]
               /\ UNCHANGED <<FLAGS, g_buckets, g_max_regions, g_regions, g_region_num,
                              g_cb, g_block_size, g_info, ready_list, extend_lock,
                              heap, cb_calls, leaked, poolReady, inits, crashed, trip, cm>>

----------------------------------------------------------------------------
\* DeallocBlock (lines 301-332)

\* the variant that reports the missing IdleNode as a failure
DeallocBlock_Fail(t, buf, gotNode) ==
    LET r == GetRegion(g_regions, g_max_regions, buf)
    IN /\ ~crashed /\ poolReady /\ pc[t] = "idle"
       /\ UNCHANGED <<poolVars, heap, cb_calls, poolReady, inits, crashed, trip, cm>>
       /\ IF buf = NULL
          THEN /\ Returned("dealloc", -1, EINVAL)
               /\ UNCHANGED <<pc, local, loaned, leaked, nodesOut, trip, cm>>
          ELSE IF r = NoRegion
          THEN /\ Returned("dealloc", -1, ERANGE)
               /\ UNCHANGED <<pc, local, loaned, leaked, nodesOut, trip, cm>>
          ELSE IF ~gotNode
          THEN /\ Returned("dealloc", -1, ENOMEM)
               /\ UNCHANGED <<pc, local, loaned, leaked, nodesOut, trip, cm>>
          ELSE /\ local' = [local EXCEPT ![t] =
                               [size |-> g_block_size[g_regions[r].block_type],
                                block_type |-> g_regions[r].block_type,
                                index |-> BucketOf(buf, g_regions[r], g_buckets),
                                buf |-> buf]]
               /\ nodesOut' = nodesOut + 1
               /\ loaned' = loaned \ {buf}
               /\ pc' = [pc EXCEPT ![t] = "d_lock"]
               /\ last' = NoCall
               /\ UNCHANGED leaked

\* DeallocBlock up to the bucket lock (lines 301-325).  gotNode: whether
\* get_object<IdleNode>() returns a node.
DeallocBlock(t, buf, gotNode) ==
    LET r == GetRegion(g_regions, g_max_regions, buf)
    IN /\ ~crashed /\ poolReady /\ pc[t] = "idle"
       /\ UNCHANGED <<poolVars, heap, cb_calls, poolReady, inits, crashed, trip, cm>>
       /\ IF buf = NULL
          THEN /\ Returned("dealloc", -1, EINVAL)
               /\ UNCHANGED <<pc, local, loaned, leaked, nodesOut, trip, cm>>
          ELSE IF r = NoRegion
          THEN /\ Returned("dealloc", -1, ERANGE)
               /\ UNCHANGED <<pc, local, loaned, leaked, nodesOut, trip, cm>>
          ELSE IF ~gotNode
          THEN /\ Returned("dealloc", 0, 0)
               /\ loaned' = loaned \ {buf}
               /\ leaked' = leaked \cup {buf}
               /\ UNCHANGED <<pc, local, nodesOut, trip, cm>>
          ELSE /\ local' = [local EXCEPT ![t] =
                               [size |-> g_block_size[g_regions[r].block_type],
                                block_type |-> g_regions[r].block_type,
                                index |-> BucketOf(buf, g_regions[r], g_buckets),
                                buf |-> buf]]
               /\ nodesOut' = nodesOut + 1
               /\ loaned' = loaned \ {buf}
               /\ pc' = [pc EXCEPT ![t] = "d_lock"]
               /\ last' = NoCall
               /\ UNCHANGED leaked

\* the variant that puts the node at the end of the bucket's list
DeallocPush_Append(t) ==
    LET c == local[t].block_type
        b == local[t].index + 1
    IN /\ ~crashed /\ pc[t] = "d_lock"
       /\ IF lock[c][b] = LOCK_NULL
          THEN /\ crashed' = TRUE /\ last' = NoCall
               /\ UNCHANGED <<poolVars, pc, local, heap, cb_calls, loaned, leaked, nodesOut,
                              poolReady, inits, trip, cm>>
          ELSE /\ lock[c][b] = 0
               /\ idle_list' = [idle_list EXCEPT ![c][b] =
                                   @ \o <<Node(local[t].buf, local[t].size)>>]
               /\ Returned("dealloc", 0, 0)
               /\ pc' = [pc EXCEPT ![t] = "idle"]
               /\ local' = [local EXCEPT ![t] = NoLocal]
               /\ UNCHANGED <<FLAGS, g_buckets, g_max_regions, g_regions, g_region_num,
                              g_cb, g_block_size, g_info, ready_list, lock, extend_lock,
                              ghostVars>>

\* the push under the bucket mutex and the return (lines 326-331)
DeallocPush(t) ==
    LET c == local[t].block_type
        b == local[t].index + 1
    IN /\ ~crashed /\ pc[t] = "d_lock"
       /\ IF lock[c][b] = LOCK_NULL
          THEN /\ crashed' = TRUE /\ last' = NoCall
               /\ UNCHANGED <<poolVars, pc, local, heap, cb_calls, loaned, leaked, nodesOut,
                              poolReady, inits, trip, cm>>
          ELSE /\ lock[c][b] = 0
               /\ idle_list' = [idle_list EXCEPT ![c][b] =
                                   <<Node(local[t].buf, local[t].size)>> \o @]
               /\ Returned("dealloc", 0, 0)
               /\ pc' = [pc EXCEPT ![t] = "idle"]
               /\ local' = [local EXCEPT ![t] = NoLocal]
               /\ UNCHANGED <<FLAGS, g_buckets, g_max_regions, g_regions, g_region_num,
                              g_cb, g_block_size, g_info, ready_list, lock, extend_lock,
                              ghostVars>>

----------------------------------------------------------------------------
\* DestroyBlockPool (lines 335-365)

RECURSIVE CountNodes(_, _)
CountNodes(vec, i) == IF i > Len(vec) THEN 0 ELSE Len(vec[i]) + CountNodes(vec, i + 1)

\* the nodes the loops of lines 336-353 return to the object pool
NodesOnLists ==
    LET n[c \in -1..(BLOCK_SIZE_COUNT - 1)] ==
            IF c < 0 THEN 0
            ELSE n[c - 1] + CountNodes(idle_list[c], 1) + Len(ready_list[c])
    IN n[BLOCK_SIZE_COUNT - 1]

\* the loop of lines 356-362: entries below g_region_num up to the first
\* whose start is 0 are freed and get start = 0
RECURSIVE FreeRegions(_, _, _)
FreeRegions(regions, num, i) ==
    IF i >= num \/ regions[i].start = 0 THEN regions
    ELSE FreeRegions([regions EXCEPT ![i].start = 0], num, i + 1)

RECURSIVE FreedBases(_, _, _)
FreedBases(regions, num, i) ==
    IF i >= num \/ regions[i].start = 0 THEN {}
    ELSE {regions[i].start} \cup FreedBases(regions, num, i + 1)

DestroyBlockPool ==
    /\ ~crashed /\ poolReady /\ Quiet
    /\ idle_list' = [c \in Classes |-> <<>>]
    /\ ready_list' = [c \in Classes |-> <<>>]
    /\ lock' = [c \in Classes |-> <<>>]
    /\ nodesOut' = nodesOut - NodesOnLists
    /\ g_info' = NULL
    /\ g_regions' = FreeRegions(g_regions, g_region_num, 0)
    /\ heap' = {h \in heap : h.base \notin FreedBases(g_regions, g_region_num, 0)}
    /\ cb_calls' = [e \in {x \in DOMAIN cb_calls :
                              x.base \notin FreedBases(g_regions, g_region_num, 0)}
                        |-> cb_calls[e]]
    /\ g_region_num' = 0
    /\ g_cb' = NULL
    /\ loaned' = {}
    /\ leaked' = {}
    /\ poolReady' = FALSE
    /\ Returned("destroy", 0, 0)
    /\ UNCHANGED <<FLAGS, g_buckets, g_max_regions, g_block_size, extend_lock,
                   pc, local, inits, crashed, trip, cm>>

----------------------------------------------------------------------------
\* The callers

\* the key the registration callback gives the memory at base
KeyOf(base) == base \div ALIGNMENT

\* What a region extension meets: posix_memalign fails or returns memory that
\* overlaps no live allocation, the callback fails or returns the key, and
\* the object pool runs dry after nn nodes (nn = buckets: it does not).
Envs(buckets) ==
    {[base |-> a, id |-> i, nn |-> n] :
        a \in {NULL} \cup (BaseAddrs \ {h.base : h \in heap}),
        i \in {0, 1}, n \in {0, buckets - 1, buckets}}

EnvOf(e) == [e EXCEPT !.id = IF e.id = 0 THEN 0 ELSE KeyOf(e.base)]

Live(addr) == \E h \in heap : addr >= h.base /\ addr < h.base + h.size

\* addresses around the ends of the places memory can be at
ProbeAddrs ==
    {ALIGNMENT - 1} \cup
    UNION {{a + MIN_SIZE_MB, a + MIN_SIZE_MB + ExtraMB} : a \in BaseAddrs}

\* pointers DeallocBlock is given: blocks on loan, NULL, addresses in no region
DeallocArgs == loaned \cup {NULL} \cup {a \in ProbeAddrs : ~Live(a)}

\* nodes of one block on the idle lists of class c
RECURSIVE Singles(_, _, _)
Singles(c, b, k) ==
    IF b > Len(idle_list[c]) THEN 0
    ELSE IF k > Len(idle_list[c][b]) THEN Singles(c, b + 1, 1)
    ELSE (IF idle_list[c][b][k].len = g_block_size[c] THEN 1 ELSE 0) + Singles(c, b, k + 1)

\* blocks that are on loan, leaked, being allocated or returned, or idle as
\* single blocks
InCirculation ==
    Cardinality(loaned) + Cardinality(leaked)
    + Cardinality({u \in Threads : pc[u] # "idle"})
    + Singles(0, 1, 1) + Singles(1, 1, 1) + Singles(2, 1, 1) + Singles(3, 1, 1)

\* The callers allocate while fewer than MaxBlocks blocks are in circulation,
\* or when the call reuses a returned block.
MayAlloc(size, index) ==
    LET c == ClassOf(g_block_size, size)
    IN IF InvalidSize(g_block_size, size) \/ InCirculation < MaxBlocks THEN TRUE
       ELSE IF index >= g_buckets \/ idle_list[c][index + 1] = <<>> THEN FALSE
       ELSE Head(idle_list[c][index + 1]).len = g_block_size[c]

Next ==
    \/ inits < MaxInits /\ \E fl \in FlagSets : SetFlags(fl)
    \/ /\ Quiet /\ (g_cb # NULL \/ inits < MaxInits)
       /\ \E cb \in {NULL, 1}, newInfo \in BOOLEAN, mf \in MutexFailures,
             env \in Envs(ClampBuckets(FLAGS, g_buckets)) :
            InitBlockPool(cb, newInfo, mf, EnvOf(env))
    \/ poolReady /\ \E t \in Threads, size \in SizeArgs, index \in 0..(MaxBuckets - 1) :
            MayAlloc(size, index) /\ AllocBlock(t, size, index)
    \/ \E t \in Threads : AllocLockExtend(t)
    \/ \E t \in Threads : pc[t] = "a_extend" /\ \E env \in Envs(g_buckets) :
            AllocExtend(t, EnvOf(env))
    \/ \E t \in Threads : AllocTake(t)
    \/ \E t \in Threads, buf \in DeallocArgs,
          gotNode \in {g \in BOOLEAN : g \/ Cardinality(leaked) < MaxLeaks} :
            DeallocBlock(t, buf, gotNode)
    \/ \E t \in Threads : DeallocPush(t)
    \/ DestroyBlockPool

Spec == Init /\ [][Next]_vars

----------------------------------------------------------------------------
\* Vocabulary of the properties

Installed == 0..(g_region_num - 1)

InRegion(i, a) == g_regions[i].start <= a /\ a < g_regions[i].start + g_regions[i].size

\* class sizes B, 2B, 4B, 8B
ClassSize(c) == IOBUF_DEFAULT_BLOCK_SIZE * (2 ^ c)

\* the addresses of the blocks of the installed region i
RegionBlocks(i) ==
    {g_regions[i].start + k * ClassSize(g_regions[i].block_type) :
        k \in 0..((g_regions[i].size \div ClassSize(g_regions[i].block_type)) - 1)}

RECURSIVE Flat(_, _)
Flat(vec, i) == IF i > Len(vec) THEN <<>> ELSE vec[i] \o Flat(vec, i + 1)

\* every node reachable from an idle shard or a ready list
AllNodes ==
    Flat(idle_list[0], 1) \o ready_list[0] \o Flat(idle_list[1], 1) \o ready_list[1]
    \o Flat(idle_list[2], 1) \o ready_list[2] \o Flat(idle_list[3], 1) \o ready_list[3]

Covers(n, a) == n.start <= a /\ a < n.start + n.len

CoverCount(a) == Cardinality({k \in 1..Len(AllNodes) : Covers(AllNodes[k], a)})

\* blocks a DeallocBlock in progress has taken over and not yet pushed
InTransit == {local[t].buf : t \in {u \in Threads : pc[u] = "d_lock"}}

\* the smallest class whose size is at least size
SmallestClass(size) ==
    CHOOSE c \in Classes : ClassSize(c) >= size /\ \A d \in Classes : d < c => ClassSize(d) < size

----------------------------------------------------------------------------
\* C1: no double loan.  AllocBlock never returns a pointer that is on loan
\* (returned earlier and not yet given back to DeallocBlock); in every state
\* no block on loan is covered by an idle or ready node and no address is
\* covered by two list nodes.
NoLoanedOnList ==
    /\ \A p \in loaned \cup InTransit : CoverCount(p) = 0
    /\ \A k, l \in 1..Len(AllNodes) :
          k < l => \/ AllNodes[k].start + AllNodes[k].len <= AllNodes[l].start
                   \/ AllNodes[l].start + AllNodes[l].len <= AllNodes[k].start

C1_NoDoubleLoan ==
    /\ []NoLoanedOnList
    /\ [][(last'.op = "alloc" /\ last'.ret # NULL)
            => last'.ret \notin (loaned \cup InTransit)]_vars

\* a block is handed out while another block is on its way back
C1_Witness ==
    /\ last.op = "alloc" /\ last.ret # NULL /\ last.ret \in loaned
    /\ \E t \in Threads : pc[t] = "d_lock"
    /\ \E k \in 1..Len(AllNodes) : AllNodes[k].len > g_block_size[0]

\* C2: every pointer on loan lies inside exactly one installed region, at an
\* offset that is a multiple of the block size of the region's class.
C2_InOneRegionAligned ==
    \A p \in loaned :
        /\ Cardinality({i \in Installed : InRegion(i, p)}) = 1
        /\ \A i \in Installed :
              InRegion(i, p) =>
                  (p - g_regions[i].start) % ClassSize(g_regions[i].block_type) = 0

\* a block that is not the first of its region, in a class above the smallest
C2_Witness ==
    \E p \in loaned, i \in Installed :
        InRegion(i, p) /\ g_regions[i].block_type >= 1 /\ p # g_regions[i].start

\* C3: a successful AllocBlock(size) returns a block of the smallest class
\* whose size is at least size: GetBlockType of the pointer is that class.
C3_ClassSelection ==
    [][\A t \in Threads :
          (pc[t] = "a_take" /\ pc'[t] = "idle" /\ last'.op = "alloc" /\ last'.ret # NULL)
              => GetBlockType(last'.ret) = SmallestClass(local[t].size)]_vars

\* a block of the largest class was returned while the other thread is in a call
C3_Witness ==
    /\ last.op = "alloc" /\ last.ret # NULL
    /\ GetBlockType(last.ret) = BLOCK_SIZE_COUNT - 1
    /\ \E t \in Threads : pc[t] # "idle"

\* C4 as stated: every block of every installed region is on loan or covered
\* by a node of an idle shard or a ready list.
C4_NoBlockLost ==
    \A i \in Installed : \A a \in RegionBlocks(i) :
        a \in (loaned \cup InTransit) \/ CoverCount(a) >= 1

\* C4 amended: every block of every installed region is on loan, covered by a
\* node of an idle shard or a ready list, or was given to a DeallocBlock that
\* returned 0 without obtaining an IdleNode.
C4_NoBlockLostButLeaks ==
    \A i \in Installed : \A a \in RegionBlocks(i) :
        a \in (loaned \cup InTransit \cup leaked) \/ CoverCount(a) >= 1

\* one block leaked, one on loan, one back on an idle list
C4_Witness ==
    /\ leaked # {} /\ loaned # {}
    /\ \E k \in 1..Len(AllNodes) : AllNodes[k].len = g_block_size[0]

\* C5: GetRegionId of a pointer on loan is the nonzero key the callback
\* returned for the memory the pointer lies in; GetRegionId of NULL and of an
\* address in no live region is 0.
C5_ReverseLookup ==
    /\ \A p \in loaned :
          /\ GetRegionId(p) # 0
          /\ \A h \in heap : (h.base <= p /\ p < h.base + h.size) => GetRegionId(p) = h.id
          /\ Live(p)
    /\ GetRegionId(NULL) = 0
    /\ \A a \in ProbeAddrs : ~Live(a) => GetRegionId(a) = 0

\* a pointer on loan from the second region, whose key differs from the first's
C5_Witness ==
    /\ g_region_num >= 2
    /\ g_regions[0].id # g_regions[1].id
    /\ \E p \in loaned : InRegion(1, p)
    /\ \E a \in ProbeAddrs : ~Live(a)

\* the ready list of class c holds an extent that belongs to bucket index
ReadyExtentFor(c, index) ==
    \E k \in 1..Len(ready_list[c]) : \E i \in Installed :
        /\ InRegion(i, ready_list[c][k].start)
        /\ ((ready_list[c][k].start - g_regions[i].start) * g_buckets)
               \div g_regions[i].size = index

\* the pool lists and the region table
ListsAndRegions == <<g_regions, g_region_num, idle_list, ready_list>>

\* C6: the number of installed regions never exceeds the effective
\* max_regions; an AllocBlock that finds its bucket empty and no ready extent
\* of its bucket while the cap is reached returns NULL with errno ENOMEM and
\* leaves the region count, the region table and every list unchanged.
RegionCap == g_region_num <= g_max_regions

C6_RegionCapAndExhaustion ==
    /\ []RegionCap
    /\ [][\A t \in Threads :
            (/\ pc[t] = "a_extend" /\ pc'[t] # "a_extend"
             /\ g_region_num = g_max_regions
             /\ idle_list[local[t].block_type][local[t].index + 1] = <<>>
             /\ ~ReadyExtentFor(local[t].block_type, local[t].index))
            => /\ last' = [op |-> "alloc", ret |-> NULL, err |-> ENOMEM]
               /\ UNCHANGED ListsAndRegions]_vars

\* an allocation has just failed with ENOMEM at the cap, with blocks on loan
C6_Witness ==
    /\ last = [op |-> "alloc", ret |-> NULL, err |-> ENOMEM]
    /\ g_region_num = g_max_regions /\ g_region_num >= 2
    /\ loaned # {}

\* C7: AllocBlock with size 0 or size above the largest class size returns
\* NULL with errno EINVAL, takes no lock, extends nothing and changes no list.
C7_InvalidSizeRejected ==
    [][\A t \in Threads :
          \* a step in which t enters AllocBlock, however the call goes on
          (pc[t] = "idle" /\ (last'.op = "alloc" \/ pc'[t] # "idle" \/ crashed'))
          => \A index \in 0..(MaxBuckets - 1) :
             \A size \in {z \in SizeArgs : z = 0 \/ z > ClassSize(BLOCK_SIZE_COUNT - 1)} :
                AllocBlock(t, size, index)
                   => /\ last' = [op |-> "alloc", ret |-> NULL, err |-> EINVAL]
                      /\ UNCHANGED <<lock, extend_lock, pc, heap>>
                      /\ UNCHANGED ListsAndRegions]_vars

\* an invalid size was rejected while another call holds a bucket lock
C7_Witness ==
    /\ last = [op |-> "alloc", ret |-> NULL, err |-> EINVAL]
    /\ \E t \in Threads : pc[t] = "a_take"
    /\ loaned # {}

\* C8: DeallocBlock(NULL) returns -1 with errno EINVAL; DeallocBlock of a
\* non-null pointer that lies in no installed region returns -1 with errno
\* ERANGE; neither changes a list, the region table or a lock.
C8_InvalidDeallocRejected ==
    [][\A t \in Threads :
          \* a step in which t enters DeallocBlock, however the call goes on
          (pc[t] = "idle" /\ (last'.op = "dealloc" \/ pc'[t] # "idle"))
          => \A gotNode \in BOOLEAN :
             /\ DeallocBlock(t, NULL, gotNode)
                   => /\ last' = [op |-> "dealloc", ret |-> -1, err |-> EINVAL]
                      /\ UNCHANGED <<lock, extend_lock, pc, loaned, leaked>>
                      /\ UNCHANGED ListsAndRegions
             /\ \A buf \in {a \in DeallocArgs \ {NULL} : \A i \in Installed : ~InRegion(i, a)} :
                   DeallocBlock(t, buf, gotNode)
                      => /\ last' = [op |-> "dealloc", ret |-> -1, err |-> ERANGE]
                         /\ UNCHANGED <<lock, extend_lock, pc, loaned, leaked>>
                         /\ UNCHANGED ListsAndRegions]_vars

\* a foreign pointer was rejected with ERANGE while blocks are on loan
C8_Witness ==
    /\ last = [op |-> "dealloc", ret |-> -1, err |-> ERANGE]
    /\ g_region_num >= 2
    /\ loaned # {}

\* C9: InitBlockPool on an initialized pool returns NULL with errno EINVAL and
\* leaves the callback, the configuration, the regions and all lists unchanged.
C9_RepeatedInitRejected ==
    [][(poolReady /\ last'.op = "init")
          => /\ last' = [op |-> "init", ret |-> NULL, err |-> EINVAL]
             /\ UNCHANGED <<g_cb, FLAGS, g_buckets, g_max_regions, g_block_size, g_info,
                            lock, heap, poolReady>>
             /\ UNCHANGED ListsAndRegions]_vars

\* a second initialization was rejected on a pool that has blocks on loan
C9_Witness ==
    /\ last = [op |-> "init", ret |-> NULL, err |-> EINVAL]
    /\ poolReady /\ g_cb # NULL
    /\ loaned # {}

\* C10: an InitBlockPool that fails on an uninitialized pool leaves no
\* callback installed, no bookkeeping and no region, so that a later
\* InitBlockPool with a valid callback is not rejected.
C10_FailedInitLeavesUninitialized ==
    [][(g_cb = NULL /\ last'.op = "init" /\ last'.ret = NULL)
          => (g_cb' = NULL /\ g_info' = NULL /\ g_region_num' = 0)]_vars

----------------------------------------------------------------------------
\* Configuration across Init/Destroy cycles

MaxCycles == 2       \* InitBlockPool calls that get past the double-initialization check

\* flag values below, inside and above the ranges lines 181-195 test for
CfgFlagSets ==
    [initial_size_mb : {MIN_SIZE_MB - 1, MIN_SIZE_MB + ExtraMB},
     increase_size_mb : {MIN_SIZE_MB - 1},
     max_regions : {0, MaxRegionsFlag, MAX_REGIONS + 1},
     buckets : {0, MaxBuckets}]

\* a program that only configures, initializes and destroys the pool
NextCfg ==
    \/ inits < MaxCycles /\ \E fl \in CfgFlagSets : SetFlags(fl)
    \/ /\ g_cb # NULL \/ inits < MaxCycles
       /\ \E cb \in {NULL, 1}, newInfo \in BOOLEAN,
             env \in Envs(ClampBuckets(FLAGS, g_buckets)) :
            InitBlockPool(cb, newInfo, NoMutexFail, EnvOf(env))
    \/ DestroyBlockPool

SpecCfg == Init /\ [][NextCfg]_vars

\* C11: after every successful InitBlockPool, also one that follows an
\* Init/Destroy cycle with other flag values, the effective region cap is the
\* max_regions flag clamped to [1, MAX_REGIONS], the bucket count is the
\* buckets flag clamped to >= 1, and both size flags are clamped to >= 64.
C11_ConfigClamping ==
    [][(last'.op = "init" /\ last'.ret # NULL)
          => /\ g_max_regions' = (IF FLAGS.max_regions < 1 THEN 1
                                  ELSE IF FLAGS.max_regions > MAX_REGIONS THEN MAX_REGIONS
                                  ELSE FLAGS.max_regions)
             /\ g_buckets' = (IF FLAGS.buckets < 1 THEN 1 ELSE FLAGS.buckets)
             /\ FLAGS'.initial_size_mb =
                   (IF FLAGS.initial_size_mb < MIN_SIZE_MB THEN MIN_SIZE_MB
                    ELSE FLAGS.initial_size_mb)
             /\ FLAGS'.increase_size_mb =
                   (IF FLAGS.increase_size_mb < MIN_SIZE_MB THEN MIN_SIZE_MB
                    ELSE FLAGS.increase_size_mb)]_vars

----------------------------------------------------------------------------
\* Locks

\* the bucket mutexes thread t holds
HeldBuckets(t) ==
    {cb \in Classes \X (1..g_buckets) :
        cb[2] <= Len(lock[cb[1]]) /\ lock[cb[1]][cb[2]] = t}

\* the owner of the mutex t is blocked on, 0 when t waits for none or it is free
WaitsOn(t) ==
    IF pc[t] = "d_lock" THEN lock[local[t].block_type][local[t].index + 1]
    ELSE IF pc[t] = "a_extlock" THEN extend_lock
    ELSE 0

\* C12: extend_lock is held only by a thread that holds exactly one bucket
\* mutex; a thread that is about to request a bucket mutex holds no mutex at
\* all; a thread that requests extend_lock holds exactly one bucket mutex; and
\* no set of threads wait on mutexes held by each other.
C12_LockOrderNoDeadlock ==
    /\ \A t \in Threads :
          /\ Cardinality(HeldBuckets(t)) <= 1
          /\ extend_lock = t => Cardinality(HeldBuckets(t)) = 1
          /\ pc[t] \in {"idle", "d_lock"} => (HeldBuckets(t) = {} /\ extend_lock # t)
          /\ pc[t] = "a_extlock" => (Cardinality(HeldBuckets(t)) = 1 /\ extend_lock # t)
    /\ \A S \in (SUBSET Threads) \ {{}} : \E t \in S : WaitsOn(t) \notin S

\* one thread extends under both mutexes while another, holding the mutex of
\* another bucket, waits for extend_lock
C12_Witness ==
    \E t, u \in Threads :
        /\ pc[t] = "a_extend" /\ extend_lock = t
        /\ pc[u] = "a_extlock" /\ WaitsOn(u) = t
        /\ HeldBuckets(u) # {} /\ HeldBuckets(t) # {}

----------------------------------------------------------------------------
\* Region installation write by write (lines 154-165) against the lock-free
\* lookup (lines 85-111, 368-374).  The extending thread keeps the region's
\* base in local.buf; the entry it writes is g_regions[g_region_num - 1].

\* the extension under extend_lock is going to install a region
WillInstall(t, env) ==
    LET R == PickOrExtend(local[t].block_type, local[t].index,
                          FLAGS.increase_size_mb, env, Pool)
    IN ~R.pool.crash /\ R.pool.region_num = g_region_num + 1

\* the variant that claims the entry without having called g_cb
InstallBegin_NoCall(t, env) ==
    /\ ~crashed /\ pc[t] = "a_extend" /\ WillInstall(t, env)
    /\ g_region_num' = g_region_num + 1
    /\ heap' = heap \cup
          {[base |-> env.base, id |-> env.id,
            size |-> RegularSize(FLAGS.increase_size_mb,
                                 g_block_size[local[t].block_type], g_buckets)]}
    /\ nodesOut' = nodesOut + g_buckets
    /\ local' = [local EXCEPT ![t].buf = env.base]
    /\ pc' = [pc EXCEPT ![t] = "x_start"]
    /\ last' = NoCall
    /\ UNCHANGED <<FLAGS, g_buckets, g_max_regions, g_regions, g_cb, g_block_size,
                   g_info, idle_list, ready_list, lock, extend_lock, cb_calls,
                   loaned, leaked, poolReady, inits, crashed, trip, cm>>

\* lines 254-255, 115-152 and `&g_regions[g_region_num++]` of line 154
InstallBegin(t, env) ==
    /\ ~crashed /\ pc[t] = "a_extend" /\ WillInstall(t, env)
    /\ g_region_num' = g_region_num + 1
    /\ heap' = heap \cup
          {[base |-> env.base, id |-> env.id,
            size |-> RegularSize(FLAGS.increase_size_mb,
                                 g_block_size[local[t].block_type], g_buckets)]}
    /\ cb_calls' = cb_calls (+)
          SetToBag({[base |-> env.base, ret |-> env.id,
                     len |-> RegularSize(FLAGS.increase_size_mb,
                                         g_block_size[local[t].block_type], g_buckets)]})
    /\ nodesOut' = nodesOut + g_buckets
    /\ local' = [local EXCEPT ![t].buf = env.base]
    /\ pc' = [pc EXCEPT ![t] = "x_start"]
    /\ last' = NoCall
    /\ UNCHANGED <<FLAGS, g_buckets, g_max_regions, g_regions, g_cb, g_block_size,
                   g_info, idle_list, ready_list, lock, extend_lock,
                   loaned, leaked, poolReady, inits, crashed, trip, cm>>

\* one store to a field of the entry, and the position that follows
WriteField(t, from, to, entry) ==
    /\ ~crashed /\ pc[t] = from
    /\ g_regions' = [g_regions EXCEPT ![g_region_num - 1] = entry]
    /\ pc' = [pc EXCEPT ![t] = to]
    /\ last' = NoCall
    /\ UNCHANGED <<FLAGS, g_buckets, g_max_regions, g_region_num, g_cb, g_block_size,
                   g_info, idle_list, ready_list, lock, extend_lock, local, ghostVars>>

\* line 155
WriteStart(t) ==
    WriteField(t, "x_start", "x_size",
               [g_regions[g_region_num - 1] EXCEPT !.start = local[t].buf])

\* line 156
WriteSize(t) ==
    WriteField(t, "x_size", "x_id",
               [g_regions[g_region_num - 1] EXCEPT
                   !.size = RegularSize(FLAGS.increase_size_mb,
                                        g_block_size[local[t].block_type], g_buckets)])

\* line 157
WriteId(t) ==
    WriteField(t, "x_id", "x_type",
               [g_regions[g_region_num - 1] EXCEPT !.id = KeyOf(local[t].buf)])

\* line 158
WriteType(t) ==
    WriteField(t, "x_type", "x_push",
               [g_regions[g_region_num - 1] EXCEPT !.block_type = local[t].block_type])

\* lines 160-165, the second PickReadyBlocks (line 267) and the release of
\* extend_lock
InstallFinish(t) ==
    LET c == local[t].block_type
        r == g_regions[g_region_num - 1]
        P2 == [Pool EXCEPT !.ready[c] =
                  ReadyNodes(r.start, r.size \div g_buckets, g_buckets - 1) \o @]
        P3 == PickReadyBlocks(c, local[t].index, P2)
    IN /\ ~crashed /\ pc[t] = "x_push"
       /\ SetPool(P3)
       /\ last' = NoCall
       /\ IF P3.crash
          THEN UNCHANGED <<extend_lock, pc, local, trip, cm>>
          ELSE /\ extend_lock' = 0
               /\ pc' = [pc EXCEPT ![t] = "a_take"]
               /\ local' = [local EXCEPT ![t].buf = NULL]
       /\ UNCHANGED <<FLAGS, g_buckets, g_max_regions, g_cb, g_block_size, g_info,
                      lock, loaned, leaked, poolReady, inits, trip, cm>>

\* GetRegion (lines 85-103) as GetRegionId and GetBlockType call it, without
\* any mutex; a match leaves the Region* in local.index
LookupMatch(u, addr) ==
    LET r == GetRegion(g_regions, g_max_regions, addr)
    IN /\ ~crashed /\ poolReady /\ pc[u] = "idle"
       /\ IF r = NoRegion
          THEN Returned("lookup", 0, 0) /\ UNCHANGED <<pc, local, trip, cm>>
          ELSE /\ local' = [local EXCEPT ![u] = [NoLocal EXCEPT !.index = r, !.buf = addr]]
               /\ pc' = [pc EXCEPT ![u] = "l_read"]
               /\ last' = NoCall
       /\ UNCHANGED <<poolVars, ghostVars>>

\* `return r->id` (line 110)
ReadId(u) ==
    /\ ~crashed /\ pc[u] = "l_read"
    /\ Returned("regionid", g_regions[local[u].index].id, 0)
    /\ pc' = [pc EXCEPT ![u] = "idle"]
    /\ local' = [local EXCEPT ![u] = NoLocal]
    /\ UNCHANGED <<poolVars, ghostVars>>

\* `return r->block_type` (line 373)
ReadType(u) ==
    /\ ~crashed /\ pc[u] = "l_read"
    /\ Returned("blocktype", g_regions[local[u].index].block_type, 0)
    /\ pc' = [pc EXCEPT ![u] = "idle"]
    /\ local' = [local EXCEPT ![u] = NoLocal]
    /\ UNCHANGED <<poolVars, ghostVars>>

NextInstall ==
    \/ inits < MaxInits /\ \E fl \in FlagSets : SetFlags(fl)
    \/ /\ Quiet /\ inits < MaxInits
       /\ \E env \in Envs(ClampBuckets(FLAGS, g_buckets)) :
            InitBlockPool(1, TRUE, NoMutexFail, EnvOf(env))
    \/ poolReady /\ \E t \in Threads, size \in SizeArgs, index \in 0..(MaxBuckets - 1) :
            MayAlloc(size, index) /\ AllocBlock(t, size, index)
    \/ \E t \in Threads : AllocLockExtend(t)
    \/ \E t \in Threads : pc[t] = "a_extend" /\ \E env \in Envs(g_buckets) :
            ~WillInstall(t, EnvOf(env)) /\ AllocExtend(t, EnvOf(env))
    \/ \E t \in Threads : pc[t] = "a_extend" /\ \E env \in Envs(g_buckets) :
            InstallBegin(t, EnvOf(env))
    \/ \E t \in Threads : WriteStart(t)
    \/ \E t \in Threads : WriteSize(t)
    \/ \E t \in Threads : WriteId(t)
    \/ \E t \in Threads : WriteType(t)
    \/ \E t \in Threads : InstallFinish(t)
    \/ \E t \in Threads : AllocTake(t)
    \/ \E u \in Threads, addr \in BaseAddrs : LookupMatch(u, addr)
    \/ \E u \in Threads : ReadId(u)
    \/ \E u \in Threads : ReadType(u)

SpecInstall == Init /\ [][NextInstall]_vars

\* the entry r is claimed by an extension whose stores are not all done
BeingWritten(r) ==
    /\ r = g_region_num - 1
    /\ \E t \in Threads : pc[t] \in {"x_start", "x_size", "x_id", "x_type"}

\* C13: a lookup that races with a region extension never matches an entry
\* whose start, size, id and class are not all written, and never returns the
\* id or the class of such an entry.
C13_NoHalfInstalledLookup ==
    /\ [](\A u \in Threads : pc[u] = "l_read" => ~BeingWritten(local[u].index))
    /\ [][\A u \in Threads :
            (pc[u] = "l_read" /\ pc'[u] = "idle") => ~BeingWritten(local[u].index)]_vars

\* the g_cb invocations made with the start of entry i as base
CallsFor(i) == {c \in BagToSet(cb_calls) : c.base = g_regions[i].start}

C15_RegionTableAppendOnly ==
    [][/\ last'.op # "destroy"
          => /\ g_region_num' >= g_region_num
             /\ \A i \in Installed : g_regions'[i] = g_regions[i]
       /\ (last'.op = "dealloc" \/ \E t \in Threads : pc[t] = "idle" /\ pc'[t] = "d_lock")
          => UNCHANGED <<g_regions, g_region_num>>]_vars

\* the last block on loan has been returned and both regions are still there
C15_Witness ==
    /\ last = [op |-> "dealloc", ret |-> 0, err |-> 0]
    /\ g_region_num = 2 /\ g_regions[1].start # 0
    /\ loaned = {} /\ leaked = {}
    /\ \E k \in 1..Len(AllNodes) : AllNodes[k].len = g_block_size[g_regions[1].block_type]

----------------------------------------------------------------------------
\* One thread allocating without deallocation, until the region cap is reached

\* posix_memalign fails or hands out the lowest free address
LazyEnvs(buckets) ==
    {e \in Envs(buckets) :
        e.base # NULL => \A f \in Envs(buckets) : f.base # NULL => e.base <= f.base}

NextLazy ==
    \/ inits < MaxInits /\ \E fl \in FlagSets : SetFlags(fl)
    \/ /\ Quiet /\ inits < MaxInits
       /\ \E env \in LazyEnvs(ClampBuckets(FLAGS, g_buckets)) :
            InitBlockPool(1, TRUE, NoMutexFail, EnvOf(env))
    \/ poolReady /\ \E size \in SizeArgs, index \in 0..(MaxBuckets - 1) :
            AllocBlock(1, size, index)
    \/ AllocLockExtend(1)
    \/ pc[1] = "a_extend" /\ \E env \in LazyEnvs(g_buckets) : AllocExtend(1, EnvOf(env))
    \/ AllocTake(1)

SpecLazy == Init /\ [][NextLazy]_vars

\* installed regions of class c
RegionsOf(c) == {i \in Installed : g_regions[i].block_type = c}

\* blocks of class c on loan
LoanedOf(c) == {p \in loaned : \E i \in RegionsOf(c) : InRegion(i, p)}

\* blocks of a region of class c made from a flag value of mb megabytes
BlocksPerRegion(mb, c) == RegularSize(mb, ClassSize(c), g_buckets) \div ClassSize(c)

CeilDiv(n, d) == (n + d - 1) \div d

\* C16: a step of AllocBlock raises the region count only when the bucket's
\* idle list is empty and the ready list of the class holds no extent of the
\* bucket, by exactly one, with a region of the requested class; with K = 1
\* and no DeallocBlock, between calls the number of regions of class c > 0 is
\* ceil(n / blocks per region) for n blocks of class c handed out, and class 0
\* has its initial region plus ceil of what the initial region does not hold.
C16_LazyExtension ==
    /\ [][\A t \in Threads :
            (pc[t] = "a_extend" /\ g_region_num' # g_region_num)
            => /\ idle_list[local[t].block_type][local[t].index + 1] = <<>>
               /\ ~ReadyExtentFor(local[t].block_type, local[t].index)
               /\ g_region_num' = g_region_num + 1
               /\ g_regions'[g_region_num].block_type = local[t].block_type]_vars
    /\ []((poolReady /\ Quiet /\ g_buckets = 1) =>
            /\ \A c \in Classes \ {0} :
                  Cardinality(RegionsOf(c)) =
                      CeilDiv(Cardinality(LoanedOf(c)),
                              BlocksPerRegion(FLAGS.increase_size_mb, c))
            /\ Cardinality(RegionsOf(0)) =
                  1 + (IF Cardinality(LoanedOf(0))
                            <= BlocksPerRegion(FLAGS.initial_size_mb, 0)
                       THEN 0
                       ELSE CeilDiv(Cardinality(LoanedOf(0))
                                        - BlocksPerRegion(FLAGS.initial_size_mb, 0),
                                    BlocksPerRegion(FLAGS.increase_size_mb, 0))))

\* with one bucket, the initial region is used up and a second region of
\* class 0 has handed out its first block
C16_Witness ==
    /\ poolReady /\ Quiet /\ g_buckets = 1
    /\ Cardinality(RegionsOf(0)) = 2
    /\ Cardinality(LoanedOf(0)) = BlocksPerRegion(FLAGS.initial_size_mb, 0) + 1

----------------------------------------------------------------------------
\* A caller's round trip from any state between calls:
\* p = AllocBlock(size); DeallocBlock(p); q = AllocBlock(size)

poolGhost == <<heap, cb_calls, loaned, leaked, nodesOut, poolReady, inits, crashed, cm>>

\* the caller keeps the pointer AllocBlock has just returned
TripBegin ==
    /\ ~crashed /\ Quiet /\ trip.stage = 0
    /\ last.op = "alloc" /\ last.ret # NULL
    /\ \E size \in SizeArgs :
          /\ ~InvalidSize(g_block_size, size)
          /\ ClassOf(g_block_size, size) = GetBlockType(last.ret)
          /\ trip' = [stage |-> 1, size |-> size, p |-> last.ret, q |-> NULL]
    /\ UNCHANGED <<poolVars, threadVars, poolGhost>>

\* the caller sees DeallocBlock(p) return 0
TripFreed ==
    /\ trip.stage = 1 /\ last.op = "dealloc" /\ last.ret = 0
    /\ trip' = [trip EXCEPT !.stage = 2]
    /\ UNCHANGED <<poolVars, threadVars, poolGhost>>

\* the caller keeps what the second AllocBlock(size) returned
TripEnd ==
    /\ trip.stage = 2 /\ last.op = "alloc"
    /\ trip' = [trip EXCEPT !.stage = 3, !.q = last.ret]
    /\ UNCHANGED <<poolVars, threadVars, poolGhost>>

\* the caller forgets both pointers
TripReset ==
    /\ trip.stage = 3
    /\ trip' = NoTrip
    /\ UNCHANGED <<poolVars, threadVars, poolGhost>>

\* The caller allocates blocks of the largest class until their regions are
\* used up, blocks of the other classes as MayAlloc lets it.
MayAllocRound(size, index) ==
    IF MayAlloc(size, index) THEN TRUE
    ELSE size = g_block_size[BLOCK_SIZE_COUNT - 1]

NextRound ==
    \/ inits < MaxInits /\ \E fl \in FlagSets : SetFlags(fl)
    \/ /\ Quiet /\ inits < MaxInits
       /\ \E env \in LazyEnvs(ClampBuckets(FLAGS, g_buckets)) :
            InitBlockPool(1, TRUE, NoMutexFail, EnvOf(env))
    \/ /\ poolReady /\ trip.stage = 0
       /\ \E size \in SizeArgs, index \in 0..(MaxBuckets - 1) :
            MayAllocRound(size, index) /\ AllocBlock(1, size, index)
    \/ /\ trip.stage = 0
       /\ \E buf \in loaned, gotNode \in {g \in BOOLEAN : g \/ Cardinality(leaked) < MaxLeaks} :
            DeallocBlock(1, buf, gotNode)
    \/ TripBegin
    \/ /\ trip.stage = 1 /\ last.op = "alloc"
       /\ \E gotNode \in {g \in BOOLEAN : g \/ Cardinality(leaked) < MaxLeaks} :
            DeallocBlock(1, trip.p, gotNode)
    \/ TripFreed
    \/ /\ trip.stage = 2 /\ last.op = "dealloc"
       /\ \E index \in 0..(MaxBuckets - 1) :
            MayAllocRound(trip.size, index) /\ AllocBlock(1, trip.size, index)
    \/ TripEnd
    \/ TripReset
    \/ AllocLockExtend(1)
    \/ pc[1] = "a_extend" /\ \E env \in LazyEnvs(g_buckets) : AllocExtend(1, EnvOf(env))
    \/ AllocTake(1)
    \/ DeallocPush(1)

SpecRound == Init /\ [][NextRound]_vars

\* C17 (as the specification states it): after p = AllocBlock(size),
\* DeallocBlock(p) = 0 and q = AllocBlock(size) with nothing in between,
\* q is not null and lies in the installed region p lies in.
C17_RoundTripStaysInRegion ==
    trip.stage = 3 =>
        /\ trip.q # NULL
        /\ GetRegion(g_regions, g_max_regions, trip.q)
              = GetRegion(g_regions, g_max_regions, trip.p)

\* C17 (amended): when DeallocBlock(p) got an IdleNode and the second
\* AllocBlock(size) selects the bucket p's address maps to (the only bucket
\* when K = 1), it returns p itself.
C17_RoundTripSameBucket ==
    [][(/\ trip.stage = 2 /\ pc[1] = "a_take" /\ last'.op = "alloc"
        /\ trip.p \notin leaked
        /\ local[1].index =
              BucketOf(trip.p, g_regions[GetRegion(g_regions, g_max_regions, trip.p)],
                       g_buckets))
       => last'.ret = trip.p]_vars

\* with two buckets the round trip has ended in p's bucket and returned p
C17_Witness ==
    /\ trip.stage = 3 /\ g_buckets = 2
    /\ trip.q = trip.p /\ trip.p \notin leaked

----------------------------------------------------------------------------
\* Balanced use

\* bytes of the installed regions of class c
RegionBytes(c) ==
    Cardinality(UNION {RegionBlocks(i) : i \in RegionsOf(c)}) * ClassSize(c)

\* every block handed out has been returned and pushed, and no call is running
AllReturned == poolReady /\ ~crashed /\ Quiet /\ loaned = {} /\ leaked = {}

----------------------------------------------------------------------------
\* Bucket counts up to one more than the blocks of a region of the largest class

WideBuckets == (MIN_SIZE_MB * BYTES_IN_MB) \div ClassSize(BLOCK_SIZE_COUNT - 1) + 1

WideFlagSets ==
    [initial_size_mb : InitialSizeValues, increase_size_mb : IncreaseSizeValues,
     max_regions : {MaxRegionsFlag}, buckets : {1, MaxBuckets, WideBuckets}]

NextWide ==
    \/ inits < MaxInits /\ \E fl \in WideFlagSets : SetFlags(fl)
    \/ /\ Quiet /\ inits < MaxInits
       /\ \E env \in LazyEnvs(ClampBuckets(FLAGS, g_buckets)) :
            InitBlockPool(1, TRUE, NoMutexFail, EnvOf(env))
    \/ poolReady /\ \E size \in SizeArgs, index \in 0..(WideBuckets - 1) :
            MayAlloc(size, index) /\ AllocBlock(1, size, index)
    \/ AllocLockExtend(1)
    \/ pc[1] = "a_extend" /\ \E env \in LazyEnvs(g_buckets) : AllocExtend(1, EnvOf(env))
    \/ AllocTake(1)
    \/ \E buf \in loaned, gotNode \in {g \in BOOLEAN : g \/ Cardinality(leaked) < MaxLeaks} :
            DeallocBlock(1, buf, gotNode)
    \/ DeallocPush(1)

SpecWide == Init /\ [][NextWide]_vars

\* the node's length is a nonzero multiple of the block size of class c
WholeBlocks(node, c) == node.len > 0 /\ node.len % ClassSize(c) = 0

\* C19: every node on an idle list or a ready list of class c is a nonzero
\* number of whole blocks of class c, every node on idle[c][b] starts in
\* bucket b of its region, and no CHECK fails.
C19_IdleNodeWellFormed ==
    g_info # NULL =>
        /\ ~crashed
        /\ \A c \in Classes :
              /\ \A k \in 1..Len(ready_list[c]) : WholeBlocks(ready_list[c][k], c)
              /\ \A b \in 1..Len(idle_list[c]) : \A k \in 1..Len(idle_list[c][b]) :
                    LET node == idle_list[c][b][k]
                        r == GetRegion(g_regions, g_max_regions, node.start)
                    IN /\ WholeBlocks(node, c)
                       /\ r # NoRegion
                       /\ BucketOf(node.start, g_regions[r], g_buckets) = b - 1

----------------------------------------------------------------------------
\* Buckets and free memory

\* free bytes of class c, in any bucket
FreeBytes(c) == GetGlobalLen(c) + ListLen(ready_list[c])

\* C20: a step of AllocBlock for class c that returns NULL with ENOMEM, or
\* that adds a region, starts in a state where no block of class c is free
\* in any bucket: all idle lists and the ready list of the class are empty.
C20_NoPartitioning ==
    [][\A t \in Threads :
          (/\ pc[t] = "a_extend"
           /\ \/ g_region_num' # g_region_num
              \/ last'.op = "alloc" /\ last'.ret = NULL /\ last'.err = ENOMEM)
          => FreeBytes(local[t].block_type) = 0]_vars

----------------------------------------------------------------------------
\* Failed extension

\* the callback refuses the region, or a get_object<IdleNode>() fails
ExtensionFails(env, buckets) == env.base # NULL /\ (env.id = 0 \/ env.nn < buckets)

\* C21: when the extension an AllocBlock makes gets past the cap check and
\* fails because the callback returns 0 or because fewer than K IdleNodes
\* are obtained, no memory and no IdleNode stays allocated, the region
\* count, the region table and every ready and idle list are as before, and
\* the AllocBlock returns NULL with both locks released.
C21_FailedExtensionAtomic ==
    [][\A t \in Threads :
          pc[t] = "a_extend" =>
             \A env \in Envs(g_buckets) :
                (/\ ExtensionFails(env, g_buckets)
                 /\ g_region_num < g_max_regions
                 /\ ~ReadyExtentFor(local[t].block_type, local[t].index)
                 /\ AllocExtend(t, EnvOf(env)))
                => /\ heap' = heap /\ nodesOut' = nodesOut
                   /\ g_region_num' = g_region_num /\ g_regions' = g_regions
                   /\ ready_list' = ready_list /\ idle_list' = idle_list
                   /\ last'.op = "alloc" /\ last'.ret = NULL
                   /\ pc'[t] = "idle" /\ extend_lock' = 0
                   /\ lock'[local[t].block_type][local[t].index + 1] = 0]_vars

\* an AllocBlock has just returned NULL from an extension that failed below
\* the region cap
C21_Witness ==
    /\ poolReady /\ ~crashed
    /\ last.op = "alloc" /\ last.ret = NULL /\ last.err = 0
    /\ g_region_num < g_max_regions
    /\ heap # {} /\ nodesOut > 0

----------------------------------------------------------------------------
\* DeallocBlock without an IdleNode

\* C22: a DeallocBlock of a block on loan that gets no IdleNode returns 0
\* in one step, takes no bucket lock and changes no idle or ready list;
\* from then on, while the pool lives, the block is covered by no list node,
\* is not on loan, and no AllocBlock returns it.
C22_LeakOnNodeExhaustion ==
    /\ [][\A t \in Threads :
            pc[t] = "idle" =>
               \A buf \in loaned :
                  DeallocBlock(t, buf, FALSE)
                  => /\ last' = [op |-> "dealloc", ret |-> 0, err |-> 0]
                     /\ lock' = lock /\ pc' = pc
                     /\ idle_list' = idle_list /\ ready_list' = ready_list
                     /\ buf \in leaked']_vars
    /\ [](\A p \in leaked :
             CoverCount(p) = 0 /\ p \notin loaned /\ p \notin InTransit)
    /\ [][(last'.op = "alloc" /\ last'.ret # NULL) => last'.ret \notin leaked]_vars

\* an AllocBlock has returned a block while another block is leaked
C22_Witness ==
    /\ poolReady /\ leaked # {}
    /\ last.op = "alloc" /\ last.ret # NULL

----------------------------------------------------------------------------
\* Reuse of returned blocks

\* a thread is inside a call that works on bucket b (from 1) of class c
WorksOn(t, c, b) ==
    /\ pc[t] \in {"a_extend", "a_take", "d_lock"}
    /\ local[t].block_type = c /\ local[t].index + 1 = b

\* C23: the DeallocBlock(p) that got a node returns with p as the one-block
\* head node of idle[c][bucket_of(p)], c the class of p's region; an
\* AllocBlock that finds a node on its bucket's list returns the start of the
\* head node and removes a head node of one block; between calls on a bucket
\* its list does not change; so with K = 1 the AllocBlock of the same class
\* that follows DeallocBlock(p) returns p.
C23_LifoReuse ==
    /\ [][\A t \in Threads :
            (pc[t] = "d_lock" /\ pc'[t] = "idle" /\ last'.op = "dealloc")
            => LET r == g_regions[GetRegion(g_regions, g_max_regions, local[t].buf)]
                   list == idle_list'[r.block_type][BucketOf(local[t].buf, r, g_buckets) + 1]
               IN /\ last'.ret = 0
                  /\ list # <<>>
                  /\ Head(list) = Node(local[t].buf, ClassSize(r.block_type))]_vars
    /\ [][\A t \in Threads :
            (pc[t] = "a_take" /\ pc'[t] = "idle" /\ last'.op = "alloc")
            => LET c == local[t].block_type
                   list == idle_list[c][local[t].index + 1]
               IN /\ last'.ret = Head(list).start
                  /\ Head(list).len = ClassSize(c)
                        => idle_list'[c][local[t].index + 1] = Tail(list)]_vars
    /\ [][(poolReady /\ poolReady') =>
            \A c \in Classes : \A b \in 1..g_buckets :
                idle_list'[c][b] # idle_list[c][b]
                => \E t \in Threads : WorksOn(t, c, b)]_vars
    /\ []((trip.stage = 3 /\ g_buckets = 1 /\ trip.p \notin leaked)
            => trip.q = trip.p)

\* with one bucket, DeallocBlock(p) pushed p and the AllocBlock of the same
\* class that followed returned p
C23_Witness ==
    /\ trip.stage = 3 /\ g_buckets = 1
    /\ trip.p \notin leaked /\ trip.q = trip.p /\ trip.p \in loaned

----------------------------------------------------------------------------
\* Teardown

\* the pool was initialized and DestroyBlockPool has run since
Destroyed == g_cb = NULL /\ inits > 0

\* C24: when DestroyBlockPool has returned, no IdleNode is out, the region
\* count is 0, GetRegionId is 0 for every address and no callback is
\* installed; an InitBlockPool that follows and succeeds leaves what a first
\* initialization with the same flags leaves: one region, the bucket count
\* and the region cap computed from the flags and the static initial values.
C24_TeardownPristine ==
    /\ [](last.op = "destroy" =>
            /\ nodesOut = 0 /\ g_region_num = 0 /\ g_cb = NULL
            /\ \A a \in BaseAddrs \cup ProbeAddrs \cup {b + 1 : b \in BaseAddrs} :
                  GetRegionId(a) = 0)
    /\ [][(Destroyed /\ last'.op = "init" /\ last'.ret # NULL)
            => /\ g_region_num' = 1
               /\ g_buckets' = ClampBuckets(FLAGS, 1)
               /\ g_max_regions' = ClampMaxRegions(ClampFlags(FLAGS), MAX_REGIONS)]_vars

----------------------------------------------------------------------------
\* RdmaCommunicationManager::GetCMEvent (rdma_communication_manager.cpp,
\* lines 231-272).  cm.event is cm_id->event: NULL or the number of the event
\* it points to; cm.channel the events waiting on cm_id->channel; cm.log the
\* calls made to rdma_ack_cm_event and rdma_get_cm_event, in order.

MaxEvents == 3
MaxCalls == 4

\* the event types the switch of lines 253-268 tells apart, and one other
CMEventTypes ==
    {"RDMA_CM_EVENT_ADDR_RESOLVED", "RDMA_CM_EVENT_ROUTE_RESOLVED",
     "RDMA_CM_EVENT_ESTABLISHED", "RDMA_CM_EVENT_DISCONNECTED",
     "RDMA_CM_EVENT_CONNECT_REQUEST"}

\* lines 253-270
CMEventOf(type) ==
    CASE type = "RDMA_CM_EVENT_ADDR_RESOLVED" -> "RDMACM_EVENT_ADDR_RESOLVED"
      [] type = "RDMA_CM_EVENT_ROUTE_RESOLVED" -> "RDMACM_EVENT_ROUTE_RESOLVED"
      [] type = "RDMA_CM_EVENT_ESTABLISHED" -> "RDMACM_EVENT_ESTABLISHED"
      [] type = "RDMA_CM_EVENT_DISCONNECTED" -> "RDMACM_EVENT_DISCONNECT"
      [] OTHER -> "RDMACM_EVENT_OTHER"

blockPoolVars ==
    <<poolVars, threadVars, heap, cb_calls, loaned, leaked, nodesOut, poolReady, inits,
      crashed, trip>>

\* the kernel queues an event on the channel
CMEventArrives(type) ==
    /\ cm.arrived < MaxEvents
    /\ cm' = [cm EXCEPT !.arrived = @ + 1,
                        !.channel = Append(@, [id |-> cm.arrived + 1, type |-> type])]
    /\ UNCHANGED blockPoolVars

\* the calls of lines 239 and 245 as they are logged
CMLogged(c) == Len(c.log) < 2 * MaxCalls

\* the variant that forgets the event without acknowledging it
CMAckPrevious_Skip(c, ackOk) == [done |-> FALSE, cm |-> [c EXCEPT !.event = NULL]]

\* lines 239-243: ackOk is whether rdma_ack_cm_event returns 0.
\* done: the function has returned RDMACM_EVENT_ERROR at line 241.
CMAckPrevious(c, ackOk) ==
    IF c.event = NULL THEN [done |-> FALSE, cm |-> c]
    ELSE IF ~ackOk
    THEN [done |-> TRUE,
          cm |-> [c EXCEPT !.log = Append(@, [call |-> "ack_failed", id |-> c.event]),
                           !.ret = "RDMACM_EVENT_ERROR"]]
    ELSE [done |-> FALSE,
          cm |-> [c EXCEPT !.log = Append(@, [call |-> "ack", id |-> c.event]),
                           !.event = NULL]]

\* lines 245-270: got is what rdma_get_cm_event does: "ok" (an event is
\* waiting and is stored in cm_id->event), "eagain" (no event is waiting),
\* "error" (it fails with another errno); a failing call leaves
\* cm_id->event as line 243 set it.
CMGetNext(c, got) ==
    IF got = "ok"
    THEN [c EXCEPT !.event = Head(c.channel).id,
                   !.channel = Tail(c.channel),
                   !.log = Append(@, [call |-> "get", id |-> Head(c.channel).id]),
                   !.ret = CMEventOf(Head(c.channel).type)]
    ELSE [c EXCEPT !.event = NULL,
                   !.log = Append(@, [call |-> "get_failed", id |-> 0]),
                   !.ret = IF got = "eagain" THEN "RDMACM_EVENT_NONE"
                           ELSE "RDMACM_EVENT_ERROR"]

GetCMEvent(ackOk, got) ==
    LET A == CMAckPrevious(cm, ackOk)
    IN /\ CMLogged(cm)
       /\ got = "ok" => cm.channel # <<>>
       /\ got = "eagain" => cm.channel = <<>>
       /\ cm' = IF A.done THEN A.cm ELSE CMGetNext(A.cm, got)
       /\ UNCHANGED blockPoolVars

NextCM ==
    \/ \E type \in CMEventTypes : CMEventArrives(type)
    \/ \E ackOk \in BOOLEAN, got \in {"ok", "eagain", "error"} : GetCMEvent(ackOk, got)

SpecCM == Init /\ [][NextCM]_vars

\* positions of the log with the call on event id
CMCalls(call, id) == {k \in 1..Len(cm.log) : cm.log[k] = [call |-> call, id |-> id]}

CMFetched == {id \in 1..MaxEvents : CMCalls("get", id) # {}}

CMAcked == {id \in 1..MaxEvents : CMCalls("ack", id) # {}}

\* C25: every event fetched earlier is acknowledged before the next
\* rdma_get_cm_event is called; each fetched event is acknowledged at most
\* once and only after it was fetched; at most one fetched event is
\* unacknowledged, and it is the one cm_id->event points to; when
\* GetCMEvent returns RDMACM_EVENT_NONE, cm_id->event is NULL.
C25_EventPumpOrdering ==
    /\ \A k \in 1..Len(cm.log) :
          cm.log[k].call \in {"get", "get_failed"} =>
             \A j \in 1..(k - 1) :
                cm.log[j].call = "get" =>
                   \E a \in (j + 1)..(k - 1) :
                      cm.log[a] = [call |-> "ack", id |-> cm.log[j].id]
    /\ \A id \in 1..MaxEvents :
          /\ Cardinality(CMCalls("ack", id)) <= 1
          /\ Cardinality(CMCalls("get", id)) <= 1
          /\ \A a \in CMCalls("ack", id) : \E g \in CMCalls("get", id) : g < a
    /\ CMFetched \ CMAcked = (IF cm.event = NULL THEN {} ELSE {cm.event})
    /\ cm.ret = "RDMACM_EVENT_NONE" => cm.event = NULL

\* two events were fetched, the first was acknowledged by the call that
\* fetched the second, a failed acknowledgement was retried, and the last
\* call found the channel empty
C25_Witness ==
    /\ Cardinality(CMFetched) >= 2
    /\ CMAcked = CMFetched
    /\ \E k \in 1..Len(cm.log) : cm.log[k].call = "ack_failed"
    /\ cm.ret = "RDMACM_EVENT_NONE" /\ cm.event = NULL

====
